---- MODULE Spec2Model ----
(***************************************************************************)
(* Model of POCEngine.render (src/engine.py): one render request binds a   *)
(* listener on localhost:8083, launches the external renderer, accepts one *)
(* connection, sends "<width> <height>", reads the reply until the peer    *)
(* closes, parses it with json.loads and copies it into the render result. *)
(*                                                                         *)
(* Text is a sequence of one-character strings; a byte stream is a         *)
(* sequence of bytes, where an ASCII byte is written as its character and  *)
(* the two bytes of U+00E9 are written "xC3" and "xA9".                    *)
(***************************************************************************)
EXTENDS Integers, Sequences, FiniteSets, TLC

\* ------------------------------------------------------------------ bounds
\* Number of render requests made on the engine instance.
MaxRender == 2

\* Number of view_update calls made on the engine instance.
MaxViewCalls == 3

\* Bytes the pipe of the renderer's stdout/stderr holds before a write to it
\* blocks (the operating system's pipe buffer, scaled down).
PipeCapacity == 1

\* ------------------------------------------------------- program constants
\* s.listen(1)
Backlog == 1
\* connection.recv(1024)
RecvSize == 1024

\* ------------------------------------------------------------------ inputs
\* Scenes a request may be given: resolution_x, resolution_y and
\* resolution_percentage.  The percentages used are those whose quotient by
\* 100.0 is an exact binary fraction, so that the float product of line 44
\* is the exact rational product.
Scenes ==
    { [resolution_x |-> 1,  resolution_y |-> 1, resolution_percentage |-> 100],
      [resolution_x |-> 20, resolution_y |-> 1, resolution_percentage |-> 50] }

\* The processes that may connect to the listener: the renderer launched by
\* the request, and some other local process.
Peers == {"engine", "other"}
NoPeer == "none"

\* Byte streams a peer may write before closing its write side (a peer may
\* also close without writing anything).
Payloads ==
    { <<"[", "]">>,
      <<" ", "[", "]">>,
      <<"[", "1", "]">>,
      <<"[", "1", ",">>,
      <<"1">>,
      <<"[", "\"", "xC3", "xA9", "\"", "]">>,
      <<"[", "1", ",", "1", ",", "1", ",", "1", "]">> }

\* What each process may write: the renderer any of Payloads, the other
\* process one short reply.
PayloadsOf(p) == IF p = "engine" THEN Payloads ELSE { <<"[", "1", "]">> }

\* Amounts of output the renderer may have for its stdout and stderr: none,
\* what the pipe holds, and more than the pipe holds.
StdoutAmounts == {0, PipeCapacity, PipeCapacity + 1}

\* ----------------------------------------------------------- pure helpers
Min(a, b) == IF a < b THEN a ELSE b

DigitChars == <<"0", "1", "2", "3", "4", "5", "6", "7", "8", "9">>
Whitespace == {" ", "\n", "\t", "\r"}

\* int(resolution * scale) with scale = resolution_percentage / 100.0
ScaledSize(resolution, percentage) == (resolution * percentage) \div 100

\* str(n) for a non-negative integer, as "{}".format produces it
RECURSIVE IntToStr(_)
IntToStr(n) ==
    IF n < 10 THEN << DigitChars[n + 1] >>
    ELSE IntToStr(n \div 10) \o << DigitChars[(n % 10) + 1] >>

\* Variant of FormatResolution: the height written before the width
FormatResolutionSwapped(x, y) == IntToStr(y) \o <<" ">> \o IntToStr(x)

\* "{} {}".format(size_x, size_y)
FormatResolution(x, y) == IntToStr(x) \o <<" ">> \o IntToStr(y)

\* str.encode("utf8"): one byte per ASCII character, two for U+00E9
RECURSIVE EncodeUtf8(_)
EncodeUtf8(text) ==
    IF text = << >> THEN << >>
    ELSE (IF Head(text) = "U+E9" THEN <<"xC3", "xA9">> ELSE << Head(text) >>)
         \o EncodeUtf8(Tail(text))

\* bytes.decode("utf8"): [ok, text]; a lead byte without its continuation
\* byte, or a continuation byte on its own, raises UnicodeDecodeError
RECURSIVE DecodeUtf8(_)
DecodeUtf8(bytes) ==
    IF bytes = << >> THEN [ok |-> TRUE, text |-> << >>]
    ELSE IF Head(bytes) = "xC3"
    THEN IF Len(bytes) >= 2 /\ bytes[2] = "xA9"
         THEN LET r == DecodeUtf8(Tail(Tail(bytes)))
              IN  [ok |-> r.ok, text |-> <<"U+E9">> \o r.text]
         ELSE [ok |-> FALSE, text |-> << >>]
    ELSE IF Head(bytes) = "xA9"
    THEN [ok |-> FALSE, text |-> << >>]
    ELSE LET r == DecodeUtf8(Tail(bytes))
         IN  [ok |-> r.ok, text |-> << Head(bytes) >> \o r.text]

\* ''.join(data_buffer)
RECURSIVE Join(_)
Join(chunks) ==
    IF chunks = << >> THEN << >> ELSE Head(chunks) \o Join(Tail(chunks))

\* str.strip(): drop leading and trailing whitespace
RECURSIVE LStrip(_)
LStrip(text) ==
    IF text # << >> /\ Head(text) \in Whitespace THEN LStrip(Tail(text))
    ELSE text

RECURSIVE RStrip(_)
RStrip(text) ==
    IF text # << >> /\ text[Len(text)] \in Whitespace
    THEN RStrip(SubSeq(text, 1, Len(text) - 1))
    ELSE text

Strip(text) == RStrip(LStrip(text))

\* ------------------------------------------------------------ json.loads
\* A parsed value is [k, n, items]: k its kind ("num", "str" or "arr"), n the
\* number (or the length of an array), items the [k, n] of an array's
\* elements in order.  The grammar covers whitespace, arrays, unsigned
\* integers and strings without escapes, which is what the bytes of Payloads
\* can spell.
ParseFail == [ok |-> FALSE, k |-> "none", n |-> 0, items |-> << >>, next |-> 0]

IsDigit(c) == \E d \in 1..10 : DigitChars[d] = c
DigitVal(c) == (CHOOSE d \in 1..10 : DigitChars[d] = c) - 1

RECURSIVE SkipWs(_, _)
SkipWs(s, i) ==
    IF i <= Len(s) /\ s[i] \in Whitespace THEN SkipWs(s, i + 1) ELSE i

\* digits after the first one of a number that does not start with "0"
RECURSIVE ScanDigits(_, _, _)
ScanDigits(s, i, acc) ==
    IF i <= Len(s) /\ IsDigit(s[i])
    THEN ScanDigits(s, i + 1, acc * 10 + DigitVal(s[i]))
    ELSE [ok |-> TRUE, k |-> "num", n |-> acc, items |-> << >>, next |-> i]

\* the closing quote of a string opened before position i
RECURSIVE ScanString(_, _, _)
ScanString(s, i, len) ==
    IF i > Len(s) THEN ParseFail
    ELSE IF s[i] = "\""
    THEN [ok |-> TRUE, k |-> "str", n |-> len, items |-> << >>, next |-> i + 1]
    ELSE ScanString(s, i + 1, len + 1)

RECURSIVE ParseValue(_, _)
RECURSIVE ParseElems(_, _, _)

\* one JSON value starting exactly at position i
ParseValue(s, i) ==
    IF i > Len(s) THEN ParseFail
    ELSE IF s[i] = "0"
    THEN [ok |-> TRUE, k |-> "num", n |-> 0, items |-> << >>, next |-> i + 1]
    ELSE IF IsDigit(s[i]) THEN ScanDigits(s, i + 1, DigitVal(s[i]))
    ELSE IF s[i] = "\"" THEN ScanString(s, i + 1, 0)
    ELSE IF s[i] = "["
    THEN LET j == SkipWs(s, i + 1)
         IN  IF j <= Len(s) /\ s[j] = "]"
             THEN [ok |-> TRUE, k |-> "arr", n |-> 0, items |-> << >>,
                   next |-> j + 1]
             ELSE ParseElems(s, j, << >>)
    ELSE ParseFail

\* the elements of an array from position i on, up to its closing bracket
ParseElems(s, i, acc) ==
    LET v == ParseValue(s, i)
    IN  IF ~v.ok THEN ParseFail
        ELSE LET items == Append(acc, [k |-> v.k, n |-> v.n])
                 j == SkipWs(s, v.next)
             IN  IF j > Len(s) THEN ParseFail
                 ELSE IF s[j] = "]"
                 THEN [ok |-> TRUE, k |-> "arr", n |-> Len(items),
                       items |-> items, next |-> j + 1]
                 ELSE IF s[j] = ","
                 THEN ParseElems(s, SkipWs(s, j + 1), items)
                 ELSE ParseFail

\* Variant of JsonLoads: an empty text is taken for an empty array
JsonLoadsEmptyAsArray(text) ==
    LET v == ParseValue(text, SkipWs(text, 1))
    IN  IF text = << >>
        THEN [ok |-> TRUE, k |-> "arr", n |-> 0, items |-> << >>]
        ELSE IF v.ok /\ SkipWs(text, v.next) > Len(text)
        THEN [ok |-> TRUE, k |-> v.k, n |-> v.n, items |-> v.items]
        ELSE [ok |-> FALSE, k |-> "none", n |-> 0, items |-> << >>]

\* json.loads(text): the value, or a JSONDecodeError (ok = FALSE) when no
\* value starts the text or anything but whitespace follows it
JsonLoads(text) ==
    LET v == ParseValue(text, SkipWs(text, 1))
    IN  IF v.ok /\ SkipWs(text, v.next) > Len(text)
        THEN [ok |-> TRUE, k |-> v.k, n |-> v.n, items |-> v.items]
        ELSE [ok |-> FALSE, k |-> "none", n |-> 0, items |-> << >>]

NoValue == [ok |-> FALSE, k |-> "none", n |-> 0, items |-> << >>]

\* ------------------------------------------------------------------ state
VARIABLES
    pc,          \* the statement of render the request is at
    renders,     \* number of render calls made so far
    scene,       \* depsgraph.scene.render of the current request
    size_x,      \* self.size_x
    size_y,      \* self.size_y
    portBusy,    \* localhost:8083 is held by a socket other than s
    lsock,       \* the listener s
    conn,        \* the accepted connection
    connPeer,    \* the peer at the other end of connection
    backlog,     \* established connections waiting in s's accept queue
    launched,    \* renderer processes started by Popen in this request
    calls,       \* number of calls of each socket/host operation
    peerState,   \* per peer: "idle", "queued", "accepted" or "refused"
    peerPayload, \* per peer: the bytes it has written to its connection
    peerAvail,   \* per peer: bytes written and not yet returned by recv
    peerClosed,  \* per peer: it has closed its write side
    toPeer,      \* per peer: bytes the host has delivered to it
    recvFrom,    \* per peer: bytes recv has returned from its connection
    sentMsgs,    \* the buffers passed to connection.sendall
    data_buffer, \* the list of decoded chunks
    zeroRead,    \* recv has returned b''
    parsedText,  \* the text passed to json.loads
    pix_data,    \* the value json.loads returned
    result,      \* the render result: begun, its size, layer.rect, ended
    err,         \* the step whose exception ended the request
    stdoutTodo,  \* output the renderer has still to write to its pipes
    pipeFill,    \* bytes written to the pipes (render never reads them)
    compat,      \* per panel class: has COMPAT_ENGINES, and its members
    regState,    \* "initial", "registered" or "unregistered"
    scene_data,  \* self.scene_data
    first_time,  \* first_time of the last view_update call
    instancesLooped, \* the last view_update looped over object_instances
    printed,     \* what the last view_update printed
    depsgraph,   \* the depsgraph of the last view_update call
    viewCalls,   \* number of view_update calls made
    i_pc,        \* per engine instance: the statement its render is at
    i_lsock,     \* per engine instance: its listener s
    i_conn,      \* per engine instance: its accepted connection
    i_peer,      \* per engine instance: the process it accepted
    i_backlog,   \* per engine instance: the accept queue of its listener
    i_launched,  \* per engine instance: its render has started a renderer
    p_state,     \* per process: "idle", "connected" or "closed"
    p_target     \* per process: the instance whose listener it reached

vars == << pc, renders, scene, size_x, size_y, portBusy, lsock, conn,
           connPeer, backlog, launched, calls, peerState, peerPayload,
           peerAvail, peerClosed, toPeer, recvFrom, sentMsgs, data_buffer,
           zeroRead, parsedText, pix_data, result, err, stdoutTodo,
           pipeFill, compat, regState, scene_data, first_time,
           instancesLooped, printed, depsgraph, viewCalls, i_pc, i_lsock,
           i_conn, i_peer, i_backlog, i_launched, p_state, p_target >>

sockVars == << lsock, conn, connPeer, backlog >>
peerVars == << peerState, peerPayload, peerAvail, peerClosed >>
dataVars == << data_buffer, zeroRead, parsedText, pix_data, result >>
sceneVars == << renders, scene, size_x, size_y >>
pipeVars == << stdoutTodo, pipeFill >>
regVars == << compat, regState >>
viewVars == << scene_data, first_time, instancesLooped, printed, depsgraph,
               viewCalls >>
instVars == << i_pc, i_lsock, i_conn, i_peer, i_backlog, i_launched, p_state,
               p_target >>
otherVars == << regVars, viewVars, instVars >>
renderVars == << pc, sceneVars, portBusy, sockVars, launched, calls, peerVars,
                toPeer, recvFrom, sentMsgs, dataVars, err, pipeVars >>

NoCalls == [bind |-> 0, listen |-> 0, launch |-> 0, accept |-> 0,
            send |-> 0, recv |-> 0, parse |-> 0, begin |-> 0]
NoScene == [resolution_x |-> 0, resolution_y |-> 0,
            resolution_percentage |-> 0]
NoResult == [begun |-> FALSE, w |-> 0, h |-> 0, rect |-> NoValue,
             ended |-> FALSE]
EmptyStreams == [p \in Peers |-> << >>]

Terminal == {"done", "error"}

\* An exception leaves render at the statement that raised it.
Raise(step) == pc' = "error" /\ err' = step

\* __init__ (lines 26-31); the port may be held by another process.
RenderInit ==
    /\ pc = "idle"
    /\ renders = 0
    /\ scene = NoScene
    /\ size_x = 0
    /\ size_y = 0
    /\ portBusy \in BOOLEAN
    /\ lsock = "none"
    /\ conn = "none"
    /\ connPeer = NoPeer
    /\ backlog = << >>
    /\ launched = 0
    /\ calls = NoCalls
    /\ peerState = [p \in Peers |-> "idle"]
    /\ peerPayload = EmptyStreams
    /\ peerAvail = EmptyStreams
    /\ peerClosed = [p \in Peers |-> FALSE]
    /\ toPeer = EmptyStreams
    /\ recvFrom = EmptyStreams
    /\ sentMsgs = << >>
    /\ data_buffer = << >>
    /\ zeroRead = FALSE
    /\ parsedText = << >>
    /\ pix_data = NoValue
    /\ result = NoResult
    /\ err = "none"
    /\ stdoutTodo = 0
    /\ pipeFill = 0

\* Panel classes of the host and the engine identifiers they may list
PanelNames == {"RENDER_PT_context", "VIEWLAYER_PT_filter", "DATA_PT_lens"}
bl_idname == "ERPTENGINE"
NoCompat == [has |-> FALSE, engines |-> {}]
PanelStates ==
    { NoCompat }
    \cup { [has |-> TRUE, engines |-> e] :
              e \in SUBSET {"BLENDER_RENDER", "BLENDER_EEVEE"} }

\* Datablocks a depsgraph may name
Datablocks == {"Cube", "Material"}
Depsgraphs ==
    [ids : SUBSET Datablocks, updates : SUBSET Datablocks,
     material_updated : BOOLEAN, object_updated : BOOLEAN]
NoDepsgraph == [ids |-> {}, updates |-> {}, material_updated |-> FALSE,
                object_updated |-> FALSE]
NoPrint == [datablocks |-> {}, materials |-> FALSE]

\* None, or a list
NoneValue == [isNone |-> TRUE, items |-> << >>]
ListValue(items) == [isNone |-> FALSE, items |-> items]
\* Python truth value: None and the empty list are false
Truthy(v) == ~v.isNone /\ v.items # << >>

\* The add-on before register() is called, with no panel listing the engine
RegIdle ==
    /\ compat = [p \in PanelNames |-> NoCompat]
    /\ regState = "initial"

\* __init__ (lines 30-31), before any view_update
ViewIdle ==
    /\ scene_data = NoneValue
    /\ first_time = FALSE
    /\ instancesLooped = FALSE
    /\ printed = NoPrint
    /\ depsgraph = NoDepsgraph
    /\ viewCalls = 0

\* Two engine instances (lines 23-25: one for the viewport, one for a final
\* render), the renderer each may launch, and one other local process
Engines == {"viewport", "final"}
RendererOf(e) == IF e = "viewport" THEN "renderer_v" ELSE "renderer_f"
Procs == { RendererOf(e) : e \in Engines } \cup {"other"}
NoEngine == "none"

\* Neither instance has been asked to render
InstIdle ==
    /\ i_pc = [e \in Engines |-> "idle"]
    /\ i_lsock = [e \in Engines |-> "none"]
    /\ i_conn = [e \in Engines |-> "none"]
    /\ i_peer = [e \in Engines |-> NoPeer]
    /\ i_backlog = [e \in Engines |-> << >>]
    /\ i_launched = [e \in Engines |-> FALSE]
    /\ p_state = [q \in Procs |-> "idle"]
    /\ p_target = [q \in Procs |-> NoEngine]

Init == RenderInit /\ RegIdle /\ ViewIdle /\ InstIdle

\* ------------------------------------------------------------ the request
\* Lines 40-50: a call of render, with fresh locals; it computes the scaled
\* size and creates the socket s.  A listener the previous call left open
\* still holds the port.
StartRender(sc) ==
    /\ pc \in Terminal \cup {"idle"}
    /\ renders < MaxRender
    /\ renders' = renders + 1
    /\ scene' = sc
    /\ size_y' = ScaledSize(sc.resolution_y, sc.resolution_percentage)
    /\ size_x' = ScaledSize(sc.resolution_x, sc.resolution_percentage)
    /\ portBusy' = (portBusy \/ lsock \in {"bound", "listening"})
    /\ lsock' = "created"
    /\ conn' = "none"
    /\ connPeer' = NoPeer
    /\ backlog' = << >>
    /\ launched' = 0
    /\ calls' = NoCalls
    /\ peerState' = [p \in Peers |-> "idle"]
    /\ peerPayload' = EmptyStreams
    /\ peerAvail' = EmptyStreams
    /\ peerClosed' = [p \in Peers |-> FALSE]
    /\ toPeer' = EmptyStreams
    /\ recvFrom' = EmptyStreams
    /\ sentMsgs' = << >>
    /\ data_buffer' = << >>
    /\ zeroRead' = FALSE
    /\ parsedText' = << >>
    /\ pix_data' = NoValue
    /\ result' = NoResult
    /\ err' = "none"
    /\ stdoutTodo' = 0
    /\ pipeFill' = 0
    /\ pc' = "bind"
    /\ UNCHANGED otherVars

\* Line 51: s.bind((SOCKET_HOST, SOCKET_PORT)) succeeds when the port is free
BindOk ==
    /\ pc = "bind"
    /\ ~portBusy
    /\ calls' = [calls EXCEPT !.bind = @ + 1]
    /\ lsock' = "bound"
    /\ pc' = "listen"
    /\ UNCHANGED << sceneVars, pipeVars, otherVars, portBusy, conn, connPeer, backlog, launched,
                    peerVars, toPeer, recvFrom, sentMsgs, dataVars, err >>

\* Variant of BindFail: the failed bind is tried again
BindFailRetry ==
    /\ pc = "bind"
    /\ portBusy
    /\ calls' = [calls EXCEPT !.bind = @ + 1]
    /\ UNCHANGED << pc, err, sceneVars, pipeVars, otherVars, portBusy, sockVars, launched,
                    peerVars, toPeer, recvFrom, sentMsgs, dataVars >>

\* Line 51: s.bind raises OSError (address in use)
BindFail ==
    /\ pc = "bind"
    /\ portBusy
    /\ calls' = [calls EXCEPT !.bind = @ + 1]
    /\ Raise("bind")
    /\ UNCHANGED << sceneVars, pipeVars, otherVars, portBusy, sockVars, launched, peerVars,
                    toPeer, recvFrom, sentMsgs, dataVars >>

\* Line 52: s.listen(1)
ListenOk ==
    /\ pc = "listen"
    /\ calls' = [calls EXCEPT !.listen = @ + 1]
    /\ lsock' = "listening"
    /\ pc' = "launch"
    /\ UNCHANGED << sceneVars, pipeVars, otherVars, portBusy, conn, connPeer, backlog, launched,
                    peerVars, toPeer, recvFrom, sentMsgs, dataVars, err >>

\* Line 52: s.listen raises OSError
ListenFail ==
    /\ pc = "listen"
    /\ calls' = [calls EXCEPT !.listen = @ + 1]
    /\ Raise("listen")
    /\ UNCHANGED << sceneVars, pipeVars, otherVars, portBusy, sockVars, launched, peerVars,
                    toPeer, recvFrom, sentMsgs, dataVars >>

\* Variant of LaunchOk: the renderer is started as soon as the socket exists
LaunchOkEarly ==
    /\ pc \in {"bind", "listen", "launch"}
    /\ calls' = [calls EXCEPT !.launch = @ + 1]
    /\ launched' = launched + 1
    /\ stdoutTodo' \in StdoutAmounts
    /\ pipeFill' = 0
    /\ pc' = IF pc = "launch" THEN "accept" ELSE pc
    /\ UNCHANGED << sceneVars, otherVars, portBusy, sockVars, peerVars, toPeer,
                    recvFrom, sentMsgs, dataVars, err >>

\* Line 56: subprocess.Popen([engine_exe], ...) starts the renderer, its
\* stdout and stderr connected to pipes that render never reads; the renderer
\* has some amount of output to write before it replies
LaunchOk ==
    /\ pc = "launch"
    /\ calls' = [calls EXCEPT !.launch = @ + 1]
    /\ launched' = launched + 1
    /\ stdoutTodo' \in StdoutAmounts
    /\ pipeFill' = 0
    /\ pc' = "accept"
    /\ UNCHANGED << sceneVars, otherVars, portBusy, sockVars, peerVars, toPeer,
                    recvFrom, sentMsgs, dataVars, err >>

\* Line 56: Popen raises (engineExecutablePath names no executable)
LaunchFail ==
    /\ pc = "launch"
    /\ calls' = [calls EXCEPT !.launch = @ + 1]
    /\ Raise("launch")
    /\ UNCHANGED << sceneVars, pipeVars, otherVars, portBusy, sockVars, launched, peerVars,
                    toPeer, recvFrom, sentMsgs, dataVars >>

\* Line 58: s.accept() blocks until the accept queue holds a connection and
\* returns the first one
AcceptOk ==
    /\ pc = "accept"
    /\ backlog # << >>
    /\ calls' = [calls EXCEPT !.accept = @ + 1]
    /\ connPeer' = Head(backlog)
    /\ backlog' = Tail(backlog)
    /\ conn' = "open"
    /\ peerState' = [peerState EXCEPT ![Head(backlog)] = "accepted"]
    /\ pc' = "send"
    /\ UNCHANGED << sceneVars, pipeVars, otherVars, portBusy, lsock, launched, peerPayload,
                    peerAvail, peerClosed, toPeer, recvFrom, sentMsgs,
                    dataVars, err >>

\* Line 58: s.accept() raises OSError
AcceptFail ==
    /\ pc = "accept"
    /\ calls' = [calls EXCEPT !.accept = @ + 1]
    /\ Raise("accept")
    /\ UNCHANGED << sceneVars, pipeVars, otherVars, portBusy, sockVars, launched, peerVars,
                    toPeer, recvFrom, sentMsgs, dataVars >>

\* Lines 61-62: the buffer passed to sendall
SceneResolution == EncodeUtf8(FormatResolution(size_x, size_y))

\* Variant of SendOk: the buffer goes to every established connection
SendOkBroadcast ==
    /\ pc = "send"
    /\ calls' = [calls EXCEPT !.send = @ + 1]
    /\ sentMsgs' = Append(sentMsgs, SceneResolution)
    /\ toPeer' = [p \in Peers |->
                    IF peerState[p] \in {"queued", "accepted"}
                    THEN toPeer[p] \o SceneResolution ELSE toPeer[p]]
    /\ pc' = "recv"
    /\ UNCHANGED << sceneVars, pipeVars, otherVars, portBusy, sockVars, launched, peerVars,
                    recvFrom, dataVars, err >>

\* Line 62: connection.sendall delivers the whole buffer
SendOk ==
    /\ pc = "send"
    /\ calls' = [calls EXCEPT !.send = @ + 1]
    /\ sentMsgs' = Append(sentMsgs, SceneResolution)
    /\ toPeer' = [toPeer EXCEPT ![connPeer] = @ \o SceneResolution]
    /\ pc' = "recv"
    /\ UNCHANGED << sceneVars, pipeVars, otherVars, portBusy, sockVars, launched, peerVars,
                    recvFrom, dataVars, err >>

\* Variant of SendFail: the failed send is ignored and the request reads on
SendFailIgnored(k) ==
    /\ pc = "send"
    /\ k < Len(SceneResolution)
    /\ calls' = [calls EXCEPT !.send = @ + 1]
    /\ sentMsgs' = Append(sentMsgs, SceneResolution)
    /\ toPeer' = [toPeer EXCEPT ![connPeer] = @ \o SubSeq(SceneResolution, 1, k)]
    /\ pc' = "recv"
    /\ UNCHANGED << sceneVars, pipeVars, otherVars, portBusy, sockVars, launched, peerVars,
                    recvFrom, dataVars, err >>

\* Line 62: connection.sendall raises after delivering k bytes of the buffer
SendFail(k) ==
    /\ pc = "send"
    /\ k < Len(SceneResolution)
    /\ calls' = [calls EXCEPT !.send = @ + 1]
    /\ sentMsgs' = Append(sentMsgs, SceneResolution)
    /\ toPeer' = [toPeer EXCEPT ![connPeer] = @ \o SubSeq(SceneResolution, 1, k)]
    /\ Raise("send")
    /\ UNCHANGED << sceneVars, pipeVars, otherVars, portBusy, sockVars, launched, peerVars,
                    recvFrom, dataVars >>

\* Lines 68-70: connection.recv(1024) returns k bytes, 1 <= k <= 1024, of
\* those the peer has written; the chunk is decoded and appended
RecvData(k) ==
    /\ pc = "recv"
    /\ k >= 1
    /\ k <= Min(RecvSize, Len(peerAvail[connPeer]))
    /\ LET in_data == SubSeq(peerAvail[connPeer], 1, k)
           d == DecodeUtf8(in_data)
       IN  /\ calls' = [calls EXCEPT !.recv = @ + 1]
           /\ peerAvail' = [peerAvail EXCEPT ![connPeer] =
                              SubSeq(@, k + 1, Len(@))]
           /\ recvFrom' = [recvFrom EXCEPT ![connPeer] = @ \o in_data]
           /\ IF d.ok
              THEN /\ data_buffer' = Append(data_buffer, d.text)
                   /\ UNCHANGED << pc, err >>
              ELSE /\ Raise("decode")
                   /\ UNCHANGED data_buffer
    /\ UNCHANGED << sceneVars, pipeVars, otherVars, portBusy, sockVars, launched, peerState,
                    peerPayload, peerClosed, toPeer, sentMsgs, zeroRead,
                    parsedText, pix_data, result >>

\* Variant of RecvEof: the read loop gives up as soon as no byte is waiting
RecvEofTimeout ==
    /\ pc = "recv"
    /\ peerAvail[connPeer] = << >>
    /\ calls' = [calls EXCEPT !.recv = @ + 1]
    /\ zeroRead' = TRUE
    /\ conn' = "closed"
    /\ lsock' = "closed"
    /\ pc' = "parse"
    /\ UNCHANGED << sceneVars, pipeVars, otherVars, portBusy, connPeer, backlog, launched,
                    peerVars, toPeer, recvFrom, sentMsgs, data_buffer,
                    parsedText, pix_data, result, err >>

\* Variant of RecvEof: the listener is left open after the zero-length read
RecvEofKeepListener ==
    /\ pc = "recv"
    /\ peerAvail[connPeer] = << >>
    /\ peerClosed[connPeer]
    /\ calls' = [calls EXCEPT !.recv = @ + 1]
    /\ zeroRead' = TRUE
    /\ conn' = "closed"
    /\ pc' = "parse"
    /\ UNCHANGED << sceneVars, pipeVars, otherVars, portBusy, lsock,
                    connPeer, backlog, launched, peerVars, toPeer, recvFrom,
                    sentMsgs, data_buffer, parsedText, pix_data, result,
                    err >>

\* Lines 68, 71-75: recv returns b'' once the peer has closed its write side
\* and every byte has been read; the connection and the listener are closed
RecvEof ==
    /\ pc = "recv"
    /\ peerAvail[connPeer] = << >>
    /\ peerClosed[connPeer]
    /\ calls' = [calls EXCEPT !.recv = @ + 1]
    /\ zeroRead' = TRUE
    /\ conn' = "closed"
    /\ lsock' = "closed"
    /\ pc' = "parse"
    /\ UNCHANGED << sceneVars, pipeVars, otherVars, portBusy, connPeer, backlog, launched,
                    peerVars, toPeer, recvFrom, sentMsgs, data_buffer,
                    parsedText, pix_data, result, err >>

\* Line 68: connection.recv raises (connection reset)
RecvFail ==
    /\ pc = "recv"
    /\ calls' = [calls EXCEPT !.recv = @ + 1]
    /\ Raise("recv")
    /\ UNCHANGED << sceneVars, pipeVars, otherVars, portBusy, sockVars, launched, peerVars,
                    toPeer, recvFrom, sentMsgs, dataVars >>

\* Line 78: ''.join(data_buffer).strip()
DataToString == Strip(Join(data_buffer))

\* json.loads on each text a reply of Payloads (or no reply) can leave in
\* data_to_string, computed once
ReplyTexts ==
    { Strip(DecodeUtf8(b).text) : b \in Payloads \cup { << >> } }
JsonLoadsOfReply == [t \in ReplyTexts |-> JsonLoads(t)]
JsonLoadsOnce(text) ==
    IF text \in ReplyTexts THEN JsonLoadsOfReply[text] ELSE JsonLoads(text)

\* Lines 78-81: pix_data = json.loads(data_to_string)
Parse ==
    /\ pc = "parse"
    /\ calls' = [calls EXCEPT !.parse = @ + 1]
    /\ parsedText' = DataToString
    /\ LET v == JsonLoadsOnce(DataToString)
       IN  IF v.ok
           THEN /\ pix_data' = v
                /\ pc' = "begin"
                /\ UNCHANGED err
           ELSE /\ Raise("json")
                /\ UNCHANGED pix_data
    /\ UNCHANGED << sceneVars, pipeVars, otherVars, portBusy, sockVars, launched, peerVars,
                    toPeer, recvFrom, sentMsgs, data_buffer, zeroRead,
                    result >>

\* Variant of BeginResult: the result region is begun before json.loads
BeginResultBeforeParse ==
    /\ pc \in {"parse", "begin"}
    /\ calls' = [calls EXCEPT !.begin = @ + 1]
    /\ result' = [result EXCEPT !.begun = TRUE, !.w = size_x, !.h = size_y]
    /\ pc' = IF pc = "begin" THEN "rect" ELSE pc
    /\ UNCHANGED << sceneVars, pipeVars, otherVars, portBusy, sockVars, launched, peerVars,
                    toPeer, recvFrom, sentMsgs, data_buffer, zeroRead,
                    parsedText, pix_data, err >>

\* Line 87: result = self.begin_result(0, 0, self.size_x, self.size_y)
BeginResult ==
    /\ pc = "begin"
    /\ calls' = [calls EXCEPT !.begin = @ + 1]
    /\ result' = [result EXCEPT !.begun = TRUE, !.w = size_x, !.h = size_y]
    /\ pc' = "rect"
    /\ UNCHANGED << sceneVars, pipeVars, otherVars, portBusy, sockVars, launched, peerVars,
                    toPeer, recvFrom, sentMsgs, data_buffer, zeroRead,
                    parsedText, pix_data, err >>

\* The values the host's pass accepts without complaint: w * h * 4 numbers
FitsPass(v, w, h) ==
    /\ v.k = "arr"
    /\ Len(v.items) = w * h * 4
    /\ \A i \in 1..Len(v.items) : v.items[i].k = "num"

\* Lines 89-90: layer.rect = pix_data
SetRect ==
    /\ pc = "rect"
    /\ result' = [result EXCEPT !.rect = pix_data]
    /\ pc' = "end"
    /\ UNCHANGED << sceneVars, pipeVars, otherVars, portBusy, sockVars, launched, calls, peerVars,
                    toPeer, recvFrom, sentMsgs, data_buffer, zeroRead,
                    parsedText, pix_data, err >>

\* Line 90: the host's property setter raises on a value that does not fit
SetRectFail ==
    /\ pc = "rect"
    /\ ~FitsPass(pix_data, result.w, result.h)
    /\ Raise("rect")
    /\ UNCHANGED << sceneVars, pipeVars, otherVars, portBusy, sockVars, launched, calls, peerVars,
                    toPeer, recvFrom, sentMsgs, dataVars >>

\* Line 91: self.end_result(result)
EndResult ==
    /\ pc = "end"
    /\ result' = [result EXCEPT !.ended = TRUE]
    /\ pc' = "done"
    /\ UNCHANGED << sceneVars, pipeVars, otherVars, portBusy, sockVars, launched, calls, peerVars,
                    toPeer, recvFrom, sentMsgs, data_buffer, zeroRead,
                    parsedText, pix_data, err >>

\* ------------------------------------------------------------ environment
\* A process connects to localhost:8083: the connection is established and
\* queued while the accept queue of s.listen(1) has room.  The renderer
\* exists only once Popen has started it.
PeerConnect(p) ==
    /\ lsock = "listening"
    /\ peerState[p] = "idle"
    /\ p = "engine" => launched > 0
    /\ Len(backlog) < Backlog
    /\ backlog' = Append(backlog, p)
    /\ peerState' = [peerState EXCEPT ![p] = "queued"]
    /\ UNCHANGED << pc, sceneVars, pipeVars, otherVars, portBusy, lsock, conn, connPeer, launched,
                    calls, peerPayload, peerAvail, peerClosed, toPeer,
                    recvFrom, sentMsgs, dataVars, err >>

\* A process's connection attempt is turned away: the accept queue is full
PeerRefused(p) ==
    /\ lsock = "listening"
    /\ peerState[p] = "idle"
    /\ p = "engine" => launched > 0
    /\ Len(backlog) >= Backlog
    /\ peerState' = [peerState EXCEPT ![p] = "refused"]
    /\ UNCHANGED << pc, sceneVars, pipeVars, otherVars, portBusy, sockVars, launched, calls,
                    peerPayload, peerAvail, peerClosed, toPeer, recvFrom,
                    sentMsgs, dataVars, err >>

\* A connected process writes its bytes; the renderer does so once it has
\* written its output to the pipe
PeerSend(p, payload) ==
    /\ peerState[p] \in {"queued", "accepted"}
    /\ pc \notin Terminal
    /\ ~peerClosed[p]
    /\ p = "engine" => stdoutTodo = 0
    /\ peerPayload[p] = << >>
    /\ payload \in PayloadsOf(p)
    /\ peerPayload' = [peerPayload EXCEPT ![p] = payload]
    /\ peerAvail' = [peerAvail EXCEPT ![p] = payload]
    /\ UNCHANGED << pc, sceneVars, pipeVars, otherVars, portBusy, sockVars, launched, calls,
                    peerState, peerClosed, toPeer, recvFrom, sentMsgs,
                    dataVars, err >>

\* A connected process closes its write side (the renderer after its output)
PeerClose(p) ==
    /\ peerState[p] \in {"queued", "accepted"}
    /\ pc \notin Terminal
    /\ ~peerClosed[p]
    /\ p = "engine" => stdoutTodo = 0
    /\ peerClosed' = [peerClosed EXCEPT ![p] = TRUE]
    /\ UNCHANGED << pc, sceneVars, pipeVars, otherVars, portBusy, sockVars, launched, calls,
                    peerState, peerPayload, peerAvail, toPeer, recvFrom,
                    sentMsgs, dataVars, err >>

\* The renderer writes to its stdout/stderr pipe: as much of its output as
\* the pipe has room for; with the pipe full the write blocks
EngineWrite ==
    /\ launched > 0
    /\ pc \notin Terminal
    /\ stdoutTodo > 0
    /\ pipeFill < PipeCapacity
    /\ LET n == Min(stdoutTodo, PipeCapacity - pipeFill)
       IN  /\ pipeFill' = pipeFill + n
           /\ stdoutTodo' = stdoutTodo - n
    /\ UNCHANGED << pc, sceneVars, otherVars, sockVars, portBusy, launched,
                    calls, peerVars, toPeer, recvFrom, sentMsgs, dataVars,
                    err >>

\* Whatever else held localhost:8083 lets go of it
ReleasePort ==
    /\ portBusy
    /\ portBusy' = FALSE
    /\ UNCHANGED << pc, sceneVars, pipeVars, otherVars, sockVars, launched, calls, peerVars,
                    toPeer, recvFrom, sentMsgs, dataVars, err >>

Next ==
    \/ \E sc \in Scenes : StartRender(sc)
    \/ BindOk
    \/ BindFail
    \/ ListenOk
    \/ ListenFail
    \/ LaunchOk
    \/ LaunchFail
    \/ AcceptOk
    \/ AcceptFail
    \/ SendOk
    \/ \E k \in 0..(Len(SceneResolution) - 1) : SendFail(k)
    \/ \E k \in 1..RecvSize : RecvData(k)
    \/ RecvEof
    \/ RecvFail
    \/ Parse
    \/ BeginResult
    \/ SetRect
    \/ SetRectFail
    \/ EndResult
    \/ \E p \in Peers : PeerConnect(p)
    \/ \E p \in Peers : PeerRefused(p)
    \/ \E p \in Peers, payload \in Payloads : PeerSend(p, payload)
    \/ \E p \in Peers : PeerClose(p)
    \/ EngineWrite
    \/ ReleasePort

Spec == Init /\ [][Next]_vars

\* The statements of render that return normally: the calling thread keeps
\* running, so a statement that can complete does.
HostStep ==
    \/ BindOk
    \/ ListenOk
    \/ LaunchOk
    \/ AcceptOk
    \/ SendOk
    \/ /\ pc = "recv"
       /\ \E k \in 1..Min(RecvSize, Len(peerAvail[connPeer])) : RecvData(k)
    \/ RecvEof
    \/ Parse
    \/ BeginResult
    \/ SetRect
    \/ EndResult

\* The steps of the launched renderer, a process the operating system keeps
\* scheduling.
EngineStep ==
    \/ EngineWrite
    \/ PeerConnect("engine")
    \/ \E payload \in Payloads : PeerSend("engine", payload)
    \/ PeerClose("engine")

\* One render call of an engine whose connections are not reset under it:
\* the steps of Next for the first call, without the recv that raises.
LiveNext ==
    \/ \E sc \in Scenes : renders = 0 /\ StartRender(sc)
    \/ BindOk
    \/ BindFail
    \/ ListenOk
    \/ ListenFail
    \/ LaunchOk
    \/ LaunchFail
    \/ AcceptOk
    \/ AcceptFail
    \/ SendOk
    \/ \E k \in 0..(Len(SceneResolution) - 1) : SendFail(k)
    \/ \E k \in 1..RecvSize : RecvData(k)
    \/ RecvEof
    \/ Parse
    \/ BeginResult
    \/ SetRect
    \/ SetRectFail
    \/ EndResult
    \/ \E p \in Peers : PeerConnect(p)
    \/ \E p \in Peers : PeerRefused(p)
    \/ \E p \in Peers, payload \in Payloads : PeerSend(p, payload)
    \/ \E p \in Peers : PeerClose(p)
    \/ EngineWrite
    \/ ReleasePort

SpecLive ==
    Init /\ [][LiveNext]_vars /\ WF_vars(HostStep) /\ WF_vars(EngineStep)

\* ------------------------------------------------- register / unregister
\* Lines 229-241: get_panels(), the panel classes that list BLENDER_RENDER
\* and are not excluded
ExcludePanels == {"VIEWLAYER_PT_filter", "VIEWLAYER_PT_layer_passes"}
GetPanels(c) ==
    { p \in PanelNames :
        c[p].has /\ "BLENDER_RENDER" \in c[p].engines /\ p \notin ExcludePanels }

\* The add-on before register() is called, over the panel classes a host
\* may have
RegInit ==
    /\ compat \in [PanelNames -> PanelStates]
    /\ regState = "initial"

\* Lines 244-251: register(); register_class raises for a class that is
\* already registered
Register ==
    /\ regState # "registered"
    /\ regState' = "registered"
    /\ compat' = [p \in PanelNames |->
                    IF p \in GetPanels(compat)
                    THEN [compat[p] EXCEPT !.engines = @ \cup {"POCENGINE"}]
                    ELSE compat[p]]
    /\ UNCHANGED << renderVars, viewVars, instVars >>

\* Lines 254-259: unregister()
Unregister ==
    /\ regState = "registered"
    /\ regState' = "unregistered"
    /\ compat' = [p \in PanelNames |->
                    IF p \in GetPanels(compat) /\ "POCENGINE" \in compat[p].engines
                    THEN [compat[p] EXCEPT !.engines = @ \ {"POCENGINE"}]
                    ELSE compat[p]]
    /\ UNCHANGED << renderVars, viewVars, instVars >>

RegNext == Register \/ Unregister

InitRegister == RenderInit /\ ~portBusy /\ ViewIdle /\ InstIdle /\ RegInit

SpecRegister == InitRegister /\ [][RegNext]_vars

\* ------------------------------------------------------------ view_update
\* Lines 97-127: view_update(context, depsgraph)
ViewUpdate(dg) ==
    /\ viewCalls < MaxViewCalls
    /\ viewCalls' = viewCalls + 1
    /\ depsgraph' = dg
    /\ IF ~Truthy(scene_data)
       THEN /\ scene_data' = ListValue(<< >>)
            /\ first_time' = TRUE
            /\ printed' = NoPrint
       ELSE /\ first_time' = FALSE
            /\ printed' = [datablocks |-> dg.updates,
                           materials |-> dg.material_updated]
            /\ UNCHANGED scene_data
    /\ instancesLooped' = (first_time' \/ dg.object_updated)
    /\ UNCHANGED << renderVars, regVars, instVars >>

ViewNext == \E dg \in Depsgraphs : ViewUpdate(dg)

InitView == RenderInit /\ ~portBusy /\ RegIdle /\ InstIdle /\ ViewIdle

SpecView == InitView /\ [][ViewNext]_vars

\* ------------------------------------------- two instances, one port
\* The socket calls of render for two engine instances that share
\* localhost:8083, one render call each.
restVars == << renderVars, regVars, viewVars >>

\* Some socket is bound to localhost:8083
PortHeld == \E f \in Engines : i_lsock[f] \in {"bound", "listening"}

\* Lines 40-50: render is called on instance e and creates its socket
InstStart(e) ==
    /\ i_pc[e] = "idle"
    /\ i_pc' = [i_pc EXCEPT ![e] = "bind"]
    /\ i_lsock' = [i_lsock EXCEPT ![e] = "created"]
    /\ UNCHANGED << i_conn, i_peer, i_backlog, i_launched, p_state, p_target,
                    restVars >>

\* Variant of InstBindOk: the bind succeeds although the port is held
InstBindOkShared(e) ==
    /\ i_pc[e] = "bind"
    /\ i_pc' = [i_pc EXCEPT ![e] = "listen"]
    /\ i_lsock' = [i_lsock EXCEPT ![e] = "bound"]
    /\ UNCHANGED << i_conn, i_peer, i_backlog, i_launched, p_state, p_target,
                    restVars >>

\* Line 51: s.bind succeeds when no socket holds the port
InstBindOk(e) ==
    /\ i_pc[e] = "bind"
    /\ ~PortHeld
    /\ i_pc' = [i_pc EXCEPT ![e] = "listen"]
    /\ i_lsock' = [i_lsock EXCEPT ![e] = "bound"]
    /\ UNCHANGED << i_conn, i_peer, i_backlog, i_launched, p_state, p_target,
                    restVars >>

\* Line 51: s.bind raises OSError (address in use)
InstBindFail(e) ==
    /\ i_pc[e] = "bind"
    /\ PortHeld
    /\ i_pc' = [i_pc EXCEPT ![e] = "error"]
    /\ UNCHANGED << i_lsock, i_conn, i_peer, i_backlog, i_launched, p_state,
                    p_target, restVars >>

\* Line 52: s.listen(1)
InstListen(e) ==
    /\ i_pc[e] = "listen"
    /\ i_pc' = [i_pc EXCEPT ![e] = "launch"]
    /\ i_lsock' = [i_lsock EXCEPT ![e] = "listening"]
    /\ UNCHANGED << i_conn, i_peer, i_backlog, i_launched, p_state, p_target,
                    restVars >>

\* Line 56: subprocess.Popen starts the renderer of instance e
InstLaunch(e) ==
    /\ i_pc[e] = "launch"
    /\ i_pc' = [i_pc EXCEPT ![e] = "accept"]
    /\ i_launched' = [i_launched EXCEPT ![e] = TRUE]
    /\ UNCHANGED << i_lsock, i_conn, i_peer, i_backlog, p_state, p_target,
                    restVars >>

\* Line 58: s.accept() returns the first queued connection
InstAccept(e) ==
    /\ i_pc[e] = "accept"
    /\ i_backlog[e] # << >>
    /\ i_pc' = [i_pc EXCEPT ![e] = "send"]
    /\ i_peer' = [i_peer EXCEPT ![e] = Head(i_backlog[e])]
    /\ i_backlog' = [i_backlog EXCEPT ![e] = Tail(@)]
    /\ i_conn' = [i_conn EXCEPT ![e] = "open"]
    /\ UNCHANGED << i_lsock, i_launched, p_state, p_target, restVars >>

\* Lines 61-62: the resolution is sent
InstSend(e) ==
    /\ i_pc[e] = "send"
    /\ i_pc' = [i_pc EXCEPT ![e] = "recv"]
    /\ UNCHANGED << i_lsock, i_conn, i_peer, i_backlog, i_launched, p_state,
                    p_target, restVars >>

\* Lines 67-75: the read loop ends on the zero-length read, which the
\* accepted process's close brings, and closes connection and listener
InstRecvEof(e) ==
    /\ i_pc[e] = "recv"
    /\ p_state[i_peer[e]] = "closed"
    /\ i_pc' = [i_pc EXCEPT ![e] = "parse"]
    /\ i_conn' = [i_conn EXCEPT ![e] = "closed"]
    /\ i_lsock' = [i_lsock EXCEPT ![e] = "closed"]
    /\ UNCHANGED << i_peer, i_backlog, i_launched, p_state, p_target,
                    restVars >>

\* Lines 77-91: parse and result, which touch no socket
InstFinish(e) ==
    /\ i_pc[e] = "parse"
    /\ i_pc' = [i_pc EXCEPT ![e] = "done"]
    /\ UNCHANGED << i_lsock, i_conn, i_peer, i_backlog, i_launched, p_state,
                    p_target, restVars >>

\* Lines 52-81: a statement after the bind raises; render closes nothing
InstFail(e) ==
    /\ i_pc[e] \in {"listen", "launch", "accept", "send", "recv", "parse"}
    /\ i_pc' = [i_pc EXCEPT ![e] = "error"]
    /\ UNCHANGED << i_lsock, i_conn, i_peer, i_backlog, i_launched, p_state,
                    p_target, restVars >>

\* The sockets of a render that raised are closed when the interpreter
\* drops the socket objects
InstCollect(e) ==
    /\ i_pc[e] = "error"
    /\ i_lsock[e] \in {"created", "bound", "listening"}
    /\ i_lsock' = [i_lsock EXCEPT ![e] = "closed"]
    /\ i_conn' = [i_conn EXCEPT ![e] = IF @ = "open" THEN "closed" ELSE @]
    /\ UNCHANGED << i_pc, i_peer, i_backlog, i_launched, p_state, p_target,
                    restVars >>

\* The instance that launched a renderer process
Launcher(q) == CHOOSE e \in Engines : RendererOf(e) = q

\* Process q connects to localhost:8083 and lands in the accept queue of
\* the listener e that holds the port
ProcConnect(q, e) ==
    /\ p_state[q] = "idle"
    /\ q # "other" => i_launched[Launcher(q)]
    /\ i_lsock[e] = "listening"
    /\ Len(i_backlog[e]) < Backlog
    /\ p_state' = [p_state EXCEPT ![q] = "connected"]
    /\ p_target' = [p_target EXCEPT ![q] = e]
    /\ i_backlog' = [i_backlog EXCEPT ![e] = Append(@, q)]
    /\ UNCHANGED << i_pc, i_lsock, i_conn, i_peer, i_launched, restVars >>

\* A connected process closes its write side
ProcClose(q) ==
    /\ p_state[q] = "connected"
    /\ p_state' = [p_state EXCEPT ![q] = "closed"]
    /\ UNCHANGED << i_pc, i_lsock, i_conn, i_peer, i_backlog, i_launched,
                    p_target, restVars >>

InstNext ==
    \/ \E e \in Engines : InstStart(e)
    \/ \E e \in Engines : InstBindOk(e)
    \/ \E e \in Engines : InstBindFail(e)
    \/ \E e \in Engines : InstListen(e)
    \/ \E e \in Engines : InstLaunch(e)
    \/ \E e \in Engines : InstAccept(e)
    \/ \E e \in Engines : InstSend(e)
    \/ \E e \in Engines : InstRecvEof(e)
    \/ \E e \in Engines : InstFinish(e)
    \/ \E e \in Engines : InstFail(e)
    \/ \E e \in Engines : InstCollect(e)
    \/ \E q \in Procs, e \in Engines : ProcConnect(q, e)
    \/ \E q \in Procs : ProcClose(q)

InitInstances == RenderInit /\ ~portBusy /\ RegIdle /\ ViewIdle /\ InstIdle

SpecInstances == InitInstances /\ [][InstNext]_vars

TypeOK ==
    /\ pc \in {"idle", "bind", "listen", "launch", "accept", "send", "recv",
               "parse", "begin", "rect", "end", "done", "error"}
    /\ renders \in 0..MaxRender
    /\ lsock \in {"none", "created", "bound", "listening", "closed"}
    /\ conn \in {"none", "open", "closed"}
    /\ connPeer \in Peers \cup {NoPeer}

\* ----------------------------------------------------------------- claims
\* Reading a message back: a decimal numeral without sign or padding
IsDecimal(d) ==
    /\ d # << >>
    /\ \A i \in 1..Len(d) : IsDigit(d[i])
    /\ Len(d) > 1 => d[1] # "0"

RECURSIVE DecimalValue(_)
DecimalValue(d) ==
    IF d = << >> THEN 0
    ELSE DecimalValue(SubSeq(d, 1, Len(d) - 1)) * 10 + DigitVal(d[Len(d)])

\* msg is the numeral of w, one space, the numeral of h, and nothing else
IsWidthHeight(msg, w, h) ==
    \E i \in 1..Len(msg) :
        /\ msg[i] = " "
        /\ IsDecimal(SubSeq(msg, 1, i - 1))
        /\ DecimalValue(SubSeq(msg, 1, i - 1)) = w
        /\ IsDecimal(SubSeq(msg, i + 1, Len(msg)))
        /\ DecimalValue(SubSeq(msg, i + 1, Len(msg))) = h

IsPrefix(a, b) == Len(a) <= Len(b) /\ a = SubSeq(b, 1, Len(a))

BeforeSend == {"idle", "bind", "listen", "launch", "accept", "send"}
AfterLoop == {"parse", "begin", "rect", "end", "done"}
SendCompleted ==
    pc \in {"recv"} \cup AfterLoop \/ (pc = "error" /\ err \in {"recv", "decode", "json", "rect"})

\* C1: a request that has got past accept and executed its send has passed
\* exactly one buffer to the connection, and that buffer is the decimal
\* size_x, one space, the decimal size_y, with no prefix and no JSON; what
\* the peer received is that buffer (a prefix of it if the send failed).
\* Before the send nothing has been written.
C1_OneResolutionMessage ==
    /\ Len(sentMsgs) <= 1
    /\ pc \in BeforeSend => sentMsgs = << >>
    /\ sentMsgs # << >> =>
          /\ connPeer # NoPeer
          /\ IsWidthHeight(sentMsgs[1], size_x, size_y)
          /\ IsPrefix(toPeer[connPeer], sentMsgs[1])
    /\ SendCompleted =>
          /\ Len(sentMsgs) = 1
          /\ toPeer[connPeer] = sentMsgs[1]

C1_Witness ==
    /\ pc = "recv"
    /\ size_x = 10
    /\ size_y = 0
    /\ toPeer[connPeer] = <<"1", "0", " ", "0">>

\* C2: when a request has ended, in "done" or in "error", the listener is
\* closed and so is the accepted connection, if there is one.
C2_SocketsClosedAtEnd ==
    pc \in Terminal => (lsock = "closed" /\ conn \in {"none", "closed"})

\* C3: a parsed array whose length is not size_x * size_y * 4 never gets a
\* result region begun or written.
C3_LengthValidated ==
    (pix_data.ok /\ pix_data.k = "arr" /\ pix_data.n # size_x * size_y * 4)
        => (~result.begun /\ result.rect = NoValue)

\* C4: begin_result is called only when the response parsed to an array
\* whose elements are all numbers.
C4_OnlyNumberArraysBegin ==
    result.begun =>
        /\ pix_data.ok
        /\ pix_data.k = "arr"
        /\ \A i \in 1..Len(pix_data.items) : pix_data.items[i].k = "num"

\* C5: when the accepted peer has been sent the message and has closed its
\* write side without writing a byte, no result region is begun and nothing
\* is written to the image; the request does not get past json.loads.
C5_EmptyResponseAborts ==
    (connPeer # NoPeer /\ SendCompleted /\ peerClosed[connPeer]
        /\ peerPayload[connPeer] = << >>)
        => /\ ~result.begun
           /\ result.rect = NoValue
           /\ pc \in {"recv", "parse", "error"}
           /\ calls.parse > 0 => (pc = "error" /\ err = "json")

C5_Witness ==
    /\ pc = "error"
    /\ err = "json"
    /\ zeroRead
    /\ peerPayload[connPeer] = << >>
    /\ toPeer[connPeer] = sentMsgs[1]

\* C6: once bind has been called and has not bound the socket, the request
\* has ended with the bind error: one bind call, no listen, no launch, no
\* accept, no result.
C6_BindFailureIsFinal ==
    (calls.bind > 0 /\ lsock = "created")
        => /\ pc = "error"
           /\ err = "bind"
           /\ calls.bind = 1
           /\ calls.listen = 0
           /\ calls.launch = 0
           /\ launched = 0
           /\ calls.accept = 0
           /\ conn = "none"
           /\ ~result.begun

C6_Witness ==
    /\ renders = 2
    /\ pc = "error"
    /\ err = "bind"
    /\ calls.bind = 1

\* C7: when the peer has not received the whole buffer passed to sendall,
\* the request has ended with the send error: no recv, no json.loads, no
\* result.
C7_SendFailureAborts ==
    (sentMsgs # << >> /\ toPeer[connPeer] # sentMsgs[1])
        => /\ pc = "error"
           /\ err = "send"
           /\ calls.recv = 0
           /\ recvFrom[connPeer] = << >>
           /\ calls.parse = 0
           /\ ~result.begun
           /\ result.rect = NoValue

C7_Witness ==
    /\ pc = "error"
    /\ err = "send"
    /\ toPeer[connPeer] = <<"1", "0">>
    /\ peerAvail[connPeer] # << >>

\* C8: a request accepts at most one connection; a process other than the
\* accepted one is idle, queued or refused, is sent no byte and has no byte
\* read from it.
C8_OnlyOnePeerServed ==
    /\ calls.accept <= 1
    /\ Cardinality({p \in Peers : peerState[p] = "accepted"}) <= 1
    /\ \A p \in Peers :
          p # connPeer =>
              /\ peerState[p] \in {"idle", "queued", "refused"}
              /\ toPeer[p] = << >>
              /\ recvFrom[p] = << >>

C8_Witness ==
    /\ pc = "done"
    /\ connPeer = "engine"
    /\ peerState["other"] = "queued"
    /\ peerAvail["other"] # << >>
    /\ recvFrom["engine"] = peerPayload["engine"]

\* C9: json.loads is called only after a zero-length read, with the UTF-8
\* decoding of all the bytes the peer wrote, and a stream that decodes as a
\* whole is never refused for the way it was split into reads.
C9_ParsedTextIsWholeStream ==
    /\ calls.parse > 0 =>
          /\ zeroRead
          /\ DecodeUtf8(peerPayload[connPeer]).ok
          /\ parsedText = DecodeUtf8(peerPayload[connPeer]).text
    /\ (pc = "error" /\ err = "decode") =>
          ~DecodeUtf8(peerPayload[connPeer]).ok

\* C10: json.loads, the result and the closing of either socket happen only
\* after a peer has connected, has closed its write side and has had every
\* byte it wrote read; until then the request stays before the parse, its
\* sockets open, whatever the peer has sent.
C10_NoProgressWithoutClose ==
    /\ conn # "none" => (connPeer # NoPeer /\ peerState[connPeer] = "accepted")
    /\ (\/ pc \in AfterLoop
        \/ calls.parse > 0
        \/ result.begun
        \/ lsock = "closed"
        \/ conn = "closed")
          => /\ connPeer # NoPeer
             /\ peerClosed[connPeer]
             /\ peerAvail[connPeer] = << >>
             /\ zeroRead

C10_Witness ==
    /\ pc = "recv"
    /\ ~peerClosed[connPeer]
    /\ Len(peerPayload[connPeer]) = 9
    /\ recvFrom[connPeer] = peerPayload[connPeer]
    /\ lsock = "listening"
    /\ conn = "open"

\* C11: when a render call starts, the listener and the connection of the
\* call before it are no longer open.
C11_NothingOpenAtNextRequest ==
    [][renders' = renders + 1
          => (lsock \notin {"bound", "listening"} /\ conn # "open")]_vars

\* C13: the width and the height a request computes, sends and uses for the
\* result region are both greater than 0.
C13_SizesPositive ==
    pc # "idle" => (size_x > 0 /\ size_y > 0)

\* C15: the steps of a request happen in the order bind, listen, accept,
\* send, receive until close, close, decode, assemble: listen only on a bound
\* socket, accept only on a listening one, a send only on an accepted
\* connection, a read only after the whole message was sent, json.loads only
\* after the zero-length read and the two close calls, begin_result only
\* after json.loads returned a value.
C15_StepOrder ==
    /\ calls.listen > 0 => (calls.bind = 1 /\ lsock # "created")
    /\ calls.accept > 0 => (calls.listen = 1 /\ lsock \in {"listening", "closed"})
    /\ sentMsgs # << >> => (calls.accept = 1 /\ conn # "none")
    /\ calls.recv > 0 => (Len(sentMsgs) = 1 /\ toPeer[connPeer] = sentMsgs[1])
    /\ calls.parse > 0 =>
          (zeroRead /\ calls.recv > 0 /\ conn = "closed" /\ lsock = "closed")
    /\ calls.begin > 0 => (calls.parse = 1 /\ pix_data.ok)
    /\ result.begun <=> calls.begin = 1
    /\ result.rect # NoValue => result.begun

C15_Witness ==
    /\ pc = "done"
    /\ result.ended
    /\ result.rect.n = 4
    /\ calls.recv > 2

\* C18: the renderer is started at most once per request, only once the
\* listener is listening, and before accept is called.
C18_LaunchAfterListenBeforeAccept ==
    /\ launched <= 1
    /\ calls.launch <= 1
    /\ calls.launch > 0 =>
          (calls.listen = 1 /\ lsock \in {"listening", "closed"})
    /\ (launched > 0 /\ calls.accept = 0) => lsock = "listening"
    /\ (pc = "accept" \/ calls.accept > 0) => (calls.launch = 1 /\ launched = 1)
    /\ \A p \in Peers :
          (p = "engine" /\ peerState[p] # "idle") => launched = 1

C18_Witness ==
    /\ pc = "accept"
    /\ launched = 1
    /\ lsock = "listening"
    /\ backlog = <<"engine">>

\* The reply the peer wrote is a JSON array of size_x * size_y * 4 numbers
WellFormedReply(p) ==
    /\ DecodeUtf8(peerPayload[p]).ok
    /\ FitsPass(JsonLoads(Strip(DecodeUtf8(peerPayload[p]).text)),
                size_x, size_y)

\* C14: once the launched renderer has been accepted and sent the message,
\* the request finishes, whatever amount the renderer writes to its stdout
\* and stderr before it replies.
C14_FinishesWhateverStdout ==
    (pc = "recv" /\ connPeer = "engine") ~> (pc \in Terminal)

\* C16: a request whose bind succeeded and whose peer connected, was sent
\* the message, wrote a well-formed reply and closed its write side ends
\* with the reply in the result image, the result ended and both sockets
\* closed.
C16_Ready ==
    /\ pc = "recv"
    /\ peerClosed[connPeer]
    /\ WellFormedReply(connPeer)

C16_Assembled ==
    /\ pc = "done"
    /\ result.begun
    /\ result.ended
    /\ FitsPass(result.rect, size_x, size_y)
    /\ lsock = "closed"
    /\ conn = "closed"

C16_WellBehavedPeerTerminates == C16_Ready ~> C16_Assembled

C16_Witness ==
    /\ C16_Assembled
    /\ result.rect.n = 4
    /\ peerPayload[connPeer] = recvFrom[connPeer]

\* Reading a frame as a length-prefixed one: the digits in front of the
\* payload, and the same digits in reverse order
RECURSIVE Reverse(_)
Reverse(q) == IF q = << >> THEN << >> ELSE Append(Reverse(Tail(q)), Head(q))

RECURSIVE LeadingDigits(_)
LeadingDigits(msg) ==
    IF msg # << >> /\ IsDigit(Head(msg))
    THEN << Head(msg) >> \o LeadingDigits(Tail(msg))
    ELSE << >>

\* C12: the buffer sent is the decimal length of a payload with its digits
\* reversed (no sign, no padding), immediately followed by that payload, so
\* that the prefix digits reversed again give the payload's length in bytes.
C12_FrameIsReversedLengthThenPayload ==
    \A m \in 1..Len(sentMsgs) :
        LET prefix == LeadingDigits(sentMsgs[m])
            payload == SubSeq(sentMsgs[m], Len(prefix) + 1, Len(sentMsgs[m]))
        IN  /\ IsDecimal(Reverse(prefix))
            /\ DecimalValue(Reverse(prefix)) = Len(payload)

\* C19: once register() has returned, every panel get_panels() returns lists
\* the engine's bl_idname; once unregister() has returned after it, no such
\* panel lists the identifier register added.
C19_PanelsListEngine ==
    /\ regState = "registered" =>
          \A p \in GetPanels(compat) : bl_idname \in compat[p].engines
    /\ regState = "unregistered" =>
          \A p \in GetPanels(compat) : "POCENGINE" \notin compat[p].engines

\* C20: the first view_update call of an instance takes the first-time
\* branch, and every later call takes the update branch.
C20_FirstTimeOnlyOnce ==
    /\ viewCalls = 1 => first_time
    /\ viewCalls > 1 =>
          (~first_time /\ printed.datablocks = depsgraph.updates)

\* The renderers, and whether a renderer has reached a listener of an
\* instance other than the one that launched it
Renderers == { RendererOf(e) : e \in Engines }

OneListenerAtATime ==
    Cardinality({ e \in Engines : i_lsock[e] \in {"bound", "listening"} }) <= 1

\* While another socket holds the port, an instance at its bind leaves it
\* only by the bind raising
BindFailsWhileHeld ==
    \A e \in Engines :
        (i_pc[e] = "bind" /\ PortHeld /\ i_pc'[e] # "bind")
            => (i_pc'[e] = "error" /\ i_lsock'[e] = "created")

\* C17 as stated: at most one instance holds a listener bound to the port,
\* the other's bind fails, and a renderer never reaches the listener of an
\* instance other than the one that launched it.
C17_ExclusivePortOwnRenderer ==
    /\ [](OneListenerAtATime
          /\ \A q \in Renderers : p_target[q] \in {NoEngine, Launcher(q)})
    /\ [][BindFailsWhileHeld]_vars

\* C17 amended: at most one instance holds a listener bound to the port and
\* the other's bind fails while it is held; a renderer reaches the listener
\* of another instance only when its own instance's listener is closed.
C17_ExclusivePort ==
    /\ [](OneListenerAtATime
          /\ \A q \in Renderers :
                p_target[q] \notin {NoEngine, Launcher(q)}
                    => i_lsock[Launcher(q)] = "closed")
    /\ [][BindFailsWhileHeld]_vars

C17_Witness ==
    /\ i_pc["final"] = "error"
    /\ i_lsock["final"] = "created"
    /\ i_lsock["viewport"] = "listening"
    /\ i_peer["viewport"] = "renderer_v"

====
